---- MODULE Spec2Model ----
(***************************************************************************)
(* A model of final.cpp: the Table storage engine (rows keyed by integer   *)
(* id, one optional string index, binary save/load) and the Database       *)
(* command interpreter built on it.                                        *)
(*                                                                         *)
(* Strings are sequences of one-character strings.  A variant<int,string>  *)
(* is a record [t, i, s]: t is the alternative held, i the int, s the      *)
(* string.  A file is a sequence of cells, one cell per fixed-width        *)
(* integer written and one cell per byte of string data.                   *)
(***************************************************************************)
EXTENDS Integers, Sequences, FiniteSets, TLC

VARIABLES
    tbl,            \* SpecTable: the Table object driven through its public methods
    res,            \* SpecTable: the last method called, its arguments and outcome
    disk,           \* the file system: file name -> file contents (cells)
    heap,           \* Database: address -> Table object owned by a unique_ptr
    databases,      \* Database::databases: name -> address of its Table
    currentDb,      \* Database::currentDb: an address, or NullPtr
    currentDbName,  \* Database::currentDbName
    out,            \* what the last command line was and what it reported
    phase           \* "running" inside Database::run, "exited" after ~Database

vars == <<tbl, res, disk, heap, databases, currentDb, currentDbName, out, phase>>

tableVars == <<tbl, res>>
dbVars == <<heap, databases, currentDb, currentDbName, out, phase>>

-----------------------------------------------------------------------------
(* Bounds *)

MaxId == 2          \* ids and integer values of the Table methods range over 1..MaxId

Ids == 1..MaxId

-----------------------------------------------------------------------------
(* Values, rows and schemas *)

IntV(n) == [t |-> "INT", i |-> n, s |-> <<>>]
StrV(x) == [t |-> "STRING", i |-> 0, s |-> x]

Column(n, ty) == [name |-> n, type |-> ty]

\* enum class ColumnType { INT, STRING }: the values written to a file
TypeTag(ty) == IF ty = "INT" THEN 0 ELSE 1

EmptyMap == [x \in {} |-> {}]

Put(f, k, v) == [x \in (DOMAIN f) \cup {k} |-> IF x = k THEN v ELSE f[x]]
Erase(f, k) == [x \in (DOMAIN f) \ {k} |-> f[x]]

\* The bytes of the characters that occur in stored strings and column names
Lower == <<"a","b","c","d","e","f","g","h","i","j","k","l","m",
           "n","o","p","q","r","s","t","u","v","w","x","y","z">>
Ord(c) == IF c = " " THEN 32 ELSE 96 + (CHOOSE k \in 1..Len(Lower) : Lower[k] = c)
Chr(b) == IF b = 32 THEN " " ELSE Lower[b - 96]

Ok == "ok"

-----------------------------------------------------------------------------
(* class Table *)

\* Table::Table
NewTable(s) ==
    [schema |-> s, data |-> EmptyMap,
     stringIndex |-> [has |-> FALSE, map |-> EmptyMap], indexedColumn |-> 0]

\* validateRow that compares the sizes only
ValidateRow_SizeOnly(t, row) ==
    IF Len(row) # Len(t.schema) THEN "Row size does not match schema" ELSE Ok

\* Table::validateRow: Ok, or the message of the exception thrown
ValidateRow(t, row) ==
    IF Len(row) # Len(t.schema) THEN "Row size does not match schema"
    ELSE IF \E k \in 1..Len(t.schema) : t.schema[k].type # row[k].t
         THEN "Type mismatch in row"
         ELSE Ok

\* updateIndex that forgets to add the id
UpdateIndex_Skip(t, id, row) == t

\* Table::updateIndex (columns are numbered from 0 in the code, rows from 1 here)
UpdateIndex(t, id, row) ==
    IF t.stringIndex.has /\ t.indexedColumn > 0
    THEN LET value == row[t.indexedColumn + 1].s
             m == t.stringIndex.map
             bucket == IF value \in DOMAIN m THEN m[value] ELSE {}
         IN [t EXCEPT !.stringIndex.map = Put(m, value, bucket \cup {id})]
    ELSE t

\* Table::removeFromIndex
RemoveFromIndex(t, id) ==
    IF t.stringIndex.has /\ t.indexedColumn > 0
    THEN IF id \in DOMAIN t.data
         THEN LET value == t.data[id][t.indexedColumn + 1].s
                  m == t.stringIndex.map
                  bucket == (IF value \in DOMAIN m THEN m[value] ELSE {}) \ {id}
              IN [t EXCEPT !.stringIndex.map =
                      IF bucket = {} THEN Erase(m, value) ELSE Put(m, value, bucket)]
         ELSE t
    ELSE t

\* insert that overwrites a row already stored
Insert_NoDuplicateCheck(t, row) ==
    LET v == ValidateRow(t, row) IN
    IF v # Ok THEN [t |-> t, err |-> v]
    ELSE LET id == row[1].i IN
         [t |-> UpdateIndex([t EXCEPT !.data = Put(t.data, id, row)], id, row), err |-> Ok]

\* insert that adds the id to the index but never stores the row
Insert_IndexOnly(t, row) ==
    LET v == ValidateRow(t, row) IN
    IF v # Ok THEN [t |-> t, err |-> v]
    ELSE LET id == row[1].i IN
         IF id \in DOMAIN t.data THEN [t |-> t, err |-> "Duplicate ID"]
         ELSE [t |-> UpdateIndex(t, id, row), err |-> Ok]

\* Table::insert
Insert(t, row) ==
    LET v == ValidateRow(t, row) IN
    IF v # Ok THEN [t |-> t, err |-> v]
    ELSE LET id == row[1].i IN
         IF id \in DOMAIN t.data THEN [t |-> t, err |-> "Duplicate ID"]
         ELSE [t |-> UpdateIndex([t EXCEPT !.data = Put(t.data, id, row)], id, row),
               err |-> Ok]

\* Table::get
Get(t, id) ==
    IF id \in DOMAIN t.data THEN [row |-> t.data[id], err |-> Ok]
    ELSE [row |-> <<>>, err |-> "ID not found"]

\* update without the primary-key comparison
Update_NoKeyCheck(t, id, newRow) ==
    IF id \notin DOMAIN t.data THEN [t |-> t, err |-> "ID not found"]
    ELSE LET v == ValidateRow(t, newRow) IN
         IF v # Ok THEN [t |-> t, err |-> v]
         ELSE LET t1 == RemoveFromIndex(t, id)
                  t2 == [t1 EXCEPT !.data = Put(t1.data, id, newRow)]
              IN [t |-> UpdateIndex(t2, id, newRow), err |-> Ok]

\* Table::update
Update(t, id, newRow) ==
    IF id \notin DOMAIN t.data THEN [t |-> t, err |-> "ID not found"]
    ELSE LET v == ValidateRow(t, newRow) IN
         IF v # Ok THEN [t |-> t, err |-> v]
         ELSE IF newRow[1].i # id THEN [t |-> t, err |-> "Cannot change primary key"]
         ELSE LET t1 == RemoveFromIndex(t, id)
                  t2 == [t1 EXCEPT !.data = Put(t1.data, id, newRow)]
              IN [t |-> UpdateIndex(t2, id, newRow), err |-> Ok]

\* Table::remove
Remove(t, id) ==
    IF id \in DOMAIN t.data
    THEN RemoveFromIndex([t EXCEPT !.data = Erase(t.data, id)], id)
    ELSE t

\* createIndex that adds to the map it already has instead of making a new one
CreateIndex_KeepsOld(t, columnIndex) ==
    IF columnIndex >= Len(t.schema) \/ columnIndex = 0
       \/ t.schema[columnIndex + 1].type # "STRING"
    THEN [t |-> t, err |-> "Invalid column for indexing"]
    ELSE LET old == t.stringIndex.map
             vals == {t.data[id][columnIndex + 1].s : id \in DOMAIN t.data}
             m == [v \in vals \cup DOMAIN old |->
                      {id \in DOMAIN t.data : t.data[id][columnIndex + 1].s = v}
                      \cup (IF v \in DOMAIN old THEN old[v] ELSE {})]
         IN [t |-> [t EXCEPT !.stringIndex = [has |-> TRUE, map |-> m],
                             !.indexedColumn = columnIndex],
             err |-> Ok]

\* Table::createIndex
CreateIndex(t, columnIndex) ==
    IF columnIndex >= Len(t.schema) \/ columnIndex = 0
       \/ t.schema[columnIndex + 1].type # "STRING"
    THEN [t |-> t, err |-> "Invalid column for indexing"]
    ELSE LET vals == {t.data[id][columnIndex + 1].s : id \in DOMAIN t.data}
             m == [v \in vals |-> {id \in DOMAIN t.data : t.data[id][columnIndex + 1].s = v}]
         IN [t |-> [t EXCEPT !.stringIndex = [has |-> TRUE, map |-> m],
                             !.indexedColumn = columnIndex],
             err |-> Ok]

\* Table::selectByIndex: the rows returned (a vector in unspecified order, here a
\* set), or std::out_of_range from data.at(id)
SelectByIndex(t, value) ==
    IF t.stringIndex.has /\ t.indexedColumn > 0 /\ value \in DOMAIN t.stringIndex.map
    THEN LET bucket == t.stringIndex.map[value] IN
         IF bucket \subseteq DOMAIN t.data
         THEN [rows |-> {t.data[id] : id \in bucket}, err |-> Ok]
         ELSE [rows |-> {}, err |-> "out_of_range"]
    ELSE [rows |-> {}, err |-> Ok]

\* Table::getAllRows
GetAllRows(t) == {t.data[id] : id \in DOMAIN t.data}

-----------------------------------------------------------------------------
(* Table::save and Table::load *)

\* ofs.write(val.c_str(), len): one cell per byte
EncodeBytes(str) == [k \in 1..Len(str) |-> Ord(str[k])]
\* a read that fills the string back to front
DecodeBytes_Reversed(f, pos, len) == [k \in 1..len |-> Chr(f[pos + len - k])]

\* ifs.read(&val[0], len)
DecodeBytes(f, pos, len) == [k \in 1..len |-> Chr(f[pos + k - 1])]

RECURSIVE SaveSchema(_, _)
\* Table::save, the loop over the columns from column k on
SaveSchema(schema, k) ==
    IF k > Len(schema) THEN <<>>
    ELSE <<Len(schema[k].name)>> \o EncodeBytes(schema[k].name)
         \o <<TypeTag(schema[k].type)>> \o SaveSchema(schema, k + 1)

RECURSIVE SaveFields(_, _)
\* Table::save, the loop over the fields of one row from field k on
SaveFields(row, k) ==
    IF k > Len(row) THEN <<>>
    ELSE (IF row[k].t = "INT" THEN <<row[k].i>>
          ELSE <<Len(row[k].s)>> \o EncodeBytes(row[k].s))
         \o SaveFields(row, k + 1)

RECURSIVE SaveRows(_, _, _)
\* Table::save, the loop over data in the iteration order `order`
SaveRows(t, order, k) ==
    IF k > Len(order) THEN <<>>
    ELSE <<order[k]>> \o SaveFields(t.data[order[k]], 1) \o SaveRows(t, order, k + 1)

\* The orders in which an unordered_map holding the keys S may be iterated
Orders(S) ==
    {o \in [1..Cardinality(S) -> S] : \A a, b \in 1..Cardinality(S) : a # b => o[a] # o[b]}

\* Table::save: the cells written, data being iterated in the order `order`
Save(t, order) ==
    <<Len(t.schema)>> \o SaveSchema(t.schema, 1)
    \o <<Cardinality(DOMAIN t.data)>> \o SaveRows(t, order, 1)

RECURSIVE LoadSchema(_, _, _, _)
\* Table::load, the loop that checks the stored columns from column k on, reading
\* at cell pos: the position after the header, or 0 for "Schema mismatch"
LoadSchema(schema, f, k, pos) ==
    IF k > Len(schema) THEN pos
    ELSE LET nameLen == f[pos]
             name == DecodeBytes(f, pos + 1, nameLen)
             type == f[pos + 1 + nameLen]
         IN IF name # schema[k].name \/ type # TypeTag(schema[k].type) THEN 0
            ELSE LoadSchema(schema, f, k + 1, pos + 2 + nameLen)

RECURSIVE LoadFields(_, _, _, _, _)
\* Table::load, the loop over the schema that reads one row from column k on
LoadFields(schema, f, k, pos, row) ==
    IF k > Len(schema) THEN [row |-> row, pos |-> pos]
    ELSE IF schema[k].type = "INT"
         THEN LoadFields(schema, f, k + 1, pos + 1, Append(row, IntV(f[pos])))
         ELSE LoadFields(schema, f, k + 1, pos + 1 + f[pos],
                         Append(row, StrV(DecodeBytes(f, pos + 1, f[pos]))))

RECURSIVE LoadRows(_, _, _, _)
\* Table::load, the loop over the stored rows, n of them left
LoadRows(t, f, pos, n) ==
    IF n = 0 THEN t
    ELSE LET id == f[pos]
             r == LoadFields(t.schema, f, 1, pos + 1, <<>>)
         IN LoadRows(UpdateIndex([t EXCEPT !.data = Put(t.data, id, r.row)], id, r.row),
                     f, r.pos, n - 1)

\* Table::load from the file system fs
Load(t, fs, filename) ==
    IF filename \notin DOMAIN fs THEN [t |-> t, err |-> Ok]
    ELSE LET f == fs[filename]
             t0 == [t EXCEPT !.data = EmptyMap, !.stringIndex.map = EmptyMap]
         IN IF f[1] # Len(t.schema) THEN [t |-> t0, err |-> "Schema mismatch"]
            ELSE LET pos == LoadSchema(t.schema, f, 1, 2) IN
                 IF pos = 0 THEN [t |-> t0, err |-> "Schema mismatch"]
                 ELSE [t |-> LoadRows(t0, f, pos + 1, f[pos]), err |-> Ok]

-----------------------------------------------------------------------------
(* Inputs of the Table methods *)

Texts == {<<"a">>, <<"a", "b">>}
Values == {IntV(n) : n \in Ids} \cup {StrV(x) : x \in Texts}
\* Every row of two values, rows of one value, and rows of three values
Rows == [1..2 -> Values] \cup [1..1 -> Values]
        \cup {<<IntV(n), StrV(x), StrV(<<"a">>)>> : n \in Ids, x \in Texts}

IdName == <<Column(<<"i","d">>, "INT"), Column(<<"n","a","m","e">>, "STRING")>>
IdQty == <<Column(<<"i","d">>, "INT"), Column(<<"n","a","m","e">>, "INT")>>
IdTitle == <<Column(<<"i","d">>, "INT"), Column(<<"t","i","t","l","e">>, "STRING")>>
IdOnly == <<Column(<<"i","d">>, "INT")>>

IdNameTitle == <<Column(<<"i","d">>, "INT"), Column(<<"n","a","m","e">>, "STRING"),
                 Column(<<"t","i","t","l","e">>, "STRING")>>

TableSchemas == {IdName, IdQty, IdNameTitle}
FileSchemas == {IdName, IdQty, IdTitle, IdOnly}

\* A row of schema s with id n: strings are x, integers are n
RowOf(s, n, x) == [k \in 1..Len(s) |-> IF s[k].type = "INT" THEN IntV(n) ELSE StrV(x)]

\* The file save() writes for a table of schema s that holds one row, id 1
SeedFile(s) == Save([NewTable(s) EXCEPT !.data = Put(EmptyMap, 1, RowOf(s, 1, <<"a", "b">>))], <<1>>)

F == <<"f">>
NoFiles == [x \in {} |-> <<>>]

-----------------------------------------------------------------------------
(* SpecTable: one Table driven through its public methods.  The file system *)
(* is writable, and a file that exists was written by save() for some       *)
(* schema.                                                                  *)

Result(op, err) == [op |-> op, err |-> err]

TConstruct ==
    /\ tbl' = NewTable(tbl.schema)
    /\ res' = Result("Table", Ok)
    /\ UNCHANGED disk

TInsert ==
    \E row \in Rows :
        LET r == Insert(tbl, row) IN
        /\ tbl' = r.t
        /\ res' = Result("insert", r.err)
        /\ UNCHANGED disk

TGet ==
    \E id \in Ids :
        /\ res' = Result("get", Get(tbl, id).err)
        /\ UNCHANGED <<tbl, disk>>

TUpdate ==
    \E id \in Ids, row \in Rows :
        LET r == Update(tbl, id, row) IN
        /\ tbl' = r.t
        /\ res' = Result("update", r.err)
        /\ UNCHANGED disk

TRemove ==
    \E id \in Ids :
        /\ tbl' = Remove(tbl, id)
        /\ res' = Result("remove", Ok)
        /\ UNCHANGED disk

TCreateIndex ==
    \E c \in 0..3 :
        LET r == CreateIndex(tbl, c) IN
        /\ tbl' = r.t
        /\ res' = Result("createIndex", r.err)
        /\ UNCHANGED disk

TSelectByIndex ==
    \E v \in Texts :
        /\ res' = Result("selectByIndex", SelectByIndex(tbl, v).err)
        /\ UNCHANGED <<tbl, disk>>

TGetAllRows ==
    /\ res' = Result("getAllRows", Ok)
    /\ UNCHANGED <<tbl, disk>>

TSave ==
    \E order \in Orders(DOMAIN tbl.data) :
        /\ disk' = Put(disk, F, Save(tbl, order))
        /\ res' = Result("save", Ok)
        /\ UNCHANGED tbl

TLoad ==
    LET r == Load(tbl, disk, F) IN
    /\ tbl' = r.t
    /\ res' = Result("load", r.err)
    /\ UNCHANGED disk

DbIdle ==
    /\ heap = NoFiles
    /\ databases = NoFiles
    /\ currentDb = 0
    /\ currentDbName = <<>>
    /\ out = [cmd |-> "", err |-> Ok]
    /\ phase = "exited"

InitTable ==
    /\ \E s \in TableSchemas : tbl = NewTable(s)
    /\ res = Result("Table", Ok)
    /\ disk = NoFiles
    /\ DbIdle

NextTable ==
    /\ \/ TConstruct
       \/ TInsert
       \/ TGet
       \/ TUpdate
       \/ TRemove
       \/ TCreateIndex
       \/ TSelectByIndex
       \/ TGetAllRows
    /\ UNCHANGED dbVars

SpecTable == InitTable /\ [][NextTable]_vars

-----------------------------------------------------------------------------
(* SpecCodec: one Table without an index, and the file it is saved to and   *)
(* loaded from.                                                             *)

InitCodec ==
    /\ tbl = NewTable(IdName)
    /\ res = Result("Table", Ok)
    /\ disk \in {NoFiles} \cup {Put(NoFiles, F, SeedFile(s)) : s \in FileSchemas}
    /\ DbIdle

NextCodec ==
    /\ \/ TConstruct
       \/ TInsert
       \/ TUpdate
       \/ TRemove
       \/ TSave
       \/ TLoad
    /\ UNCHANGED dbVars

SpecCodec == InitCodec /\ [][NextCodec]_vars

-----------------------------------------------------------------------------
(* Properties of the Table methods *)

\* The rows of t whose indexed column holds v
RowsWith(t, v) ==
    {t.data[id] : id \in {k \in DOMAIN t.data : t.data[k][t.indexedColumn + 1].s = v}}

\* C1: on a table with an index, every id in the bucket of a value v is the id of
\* a stored row whose indexed column equals v, and the index has no bucket, empty
\* or not, for a value that no stored row has.
C1_NoStaleEntries ==
    tbl.stringIndex.has =>
        \A v \in DOMAIN tbl.stringIndex.map :
            /\ RowsWith(tbl, v) # {}
            /\ \A id \in tbl.stringIndex.map[v] :
                   /\ id \in DOMAIN tbl.data
                   /\ tbl.data[id][tbl.indexedColumn + 1].s = v

\* C2: on a table with an index, for every stored id the bucket of the value in
\* that row's indexed column contains the id.
C2_IndexHoldsEveryRow ==
    tbl.stringIndex.has =>
        \A id \in DOMAIN tbl.data :
            LET v == tbl.data[id][tbl.indexedColumn + 1].s IN
            /\ v \in DOMAIN tbl.stringIndex.map
            /\ id \in tbl.stringIndex.map[v]

\* C2 witness: an indexed table holding every id, the last of them just updated
C2_Witness ==
    /\ tbl.stringIndex.has
    /\ DOMAIN tbl.data = Ids
    /\ res = Result("update", Ok)

\* C3: selectByIndex(v) raises no error and returns exactly the stored rows whose
\* indexed column equals v; it returns nothing when there is no index.
C3_SelectByIndexExact ==
    \A v \in Texts :
        LET r == SelectByIndex(tbl, v) IN
        /\ r.err = Ok
        /\ r.rows = IF tbl.stringIndex.has THEN RowsWith(tbl, v) ELSE {}

\* The file on disk was written for a schema other than the table's
ForeignFile ==
    /\ F \in DOMAIN disk
    /\ \E s \in FileSchemas \ {tbl.schema} : disk[F] = SeedFile(s)

\* C4: load of a file written for a different schema fails with "Schema mismatch"
\* and leaves the rows the table held untouched.
C4_MismatchKeepsRows ==
    ForeignFile =>
        LET r == Load(tbl, disk, F) IN
        /\ r.err = "Schema mismatch"
        /\ r.t.data = tbl.data

\* C5: for every iteration order save may use, save(f) followed by load(f) on a
\* freshly constructed table of the same schema gives a table with exactly the
\* same ids and, for each of them, the same row from get.
C5_RoundTrip ==
    \A order \in Orders(DOMAIN tbl.data) :
        LET r == Load(NewTable(tbl.schema), Put(disk, F, Save(tbl, order)), F) IN
        /\ r.err = Ok
        /\ DOMAIN r.t.data = DOMAIN tbl.data
        /\ \A id \in DOMAIN tbl.data : Get(r.t, id) = Get(tbl, id)

\* C5 witness: a table holding every id has just been loaded from a file that is
\* what save writes for it, strings of different lengths among its rows
C5_Witness ==
    /\ res = Result("load", Ok)
    /\ DOMAIN tbl.data = Ids
    /\ F \in DOMAIN disk
    /\ \E order \in Orders(Ids) : disk[F] = Save(tbl, order)
    /\ \E a, b \in Ids : Len(tbl.data[a][2].s) # Len(tbl.data[b][2].s)

\* The rows whose first value is an integer
KeyedRows == {r \in Rows : r[1].t = "INT"}

\* C8 as stated: update(i, r2) with r2[0] # i always fails with "Cannot change
\* primary key" and leaves the table unchanged.
C8_AlwaysKeyError ==
    \A id \in Ids, r2 \in KeyedRows :
        r2[1].i # id =>
            /\ Update(tbl, id, r2).err = "Cannot change primary key"
            /\ Update(tbl, id, r2).t = tbl

\* C8 amended: update(i, r2) with r2[0] # i always fails and leaves the rows and
\* the index unchanged; the error is "ID not found" when i is absent, the
\* validation error when i is present and r2 does not match the schema, and
\* "Cannot change primary key" otherwise.
C8_KeyChangeRejected ==
    \A id \in Ids, r2 \in KeyedRows :
        r2[1].i # id =>
            LET r == Update(tbl, id, r2) IN
            /\ r.t = tbl
            /\ r.err = IF id \notin DOMAIN tbl.data THEN "ID not found"
                       ELSE IF ValidateRow(tbl, r2) # Ok THEN ValidateRow(tbl, r2)
                       ELSE "Cannot change primary key"

\* C8 witness: update has just refused to change the key of a row of an indexed table
C8_Witness ==
    /\ res = Result("update", "Cannot change primary key")
    /\ tbl.stringIndex.has
    /\ tbl.data # EmptyMap

-----------------------------------------------------------------------------
(* Database::tokenize and Database::addToken *)

kCREATE == <<"C","R","E","A","T","E">>
kDATABASE == <<"D","A","T","A","B","A","S","E">>
kUSE == <<"U","S","E">>
kSHOW == <<"S","H","O","W">>
kDATABASES == <<"D","A","T","A","B","A","S","E","S">>
kDROP == <<"D","R","O","P">>
kINSERT == <<"I","N","S","E","R","T">>
kINTO == <<"I","N","T","O">>
kVALUES == <<"V","A","L","U","E","S">>
kSELECT == <<"S","E","L","E","C","T">>
kFROM == <<"F","R","O","M">>
kWHERE == <<"W","H","E","R","E">>
kUPDATE == <<"U","P","D","A","T","E">>
kSET == <<"S","E","T">>
kDELETE == <<"D","E","L","E","T","E">>

\* addToken: the keyword set
Keywords ==
    {kCREATE, kDATABASE, kUSE, kSHOW, kDATABASES, kDROP, kINSERT, kINTO,
     kVALUES, kSELECT, kFROM, kWHERE, kUPDATE, kSET, kDELETE}

Digits == <<"0","1","2","3","4","5","6","7","8","9">>
IsDigit(c) == \E k \in 1..10 : Digits[k] = c
IsSpace(c) == c = " "
IsPunct(c) == c \in {"(", ")", ",", "="}

Token(type, value) == [type |-> type, value |-> value]

\* Database::addToken
AddToken(tokens, token) ==
    IF token \in Keywords THEN Append(tokens, Token("KEYWORD", token))
    ELSE IF \A k \in 1..Len(token) : IsDigit(token[k])
         THEN Append(tokens, Token("INT", token))
         ELSE Append(tokens, Token("IDENTIFIER", token))

\* tokenize, the flush of a non-empty accumulator
Flush(tokens, token) == IF token # <<>> THEN AddToken(tokens, token) ELSE tokens

RECURSIVE TokenizeFrom(_, _, _, _, _)
\* Database::tokenize, the loop from character i on
TokenizeFrom(input, i, tokens, token, inString) ==
    IF i > Len(input) THEN Flush(tokens, token)
    ELSE LET c == input[i] IN
         IF c = "'"
         THEN IF inString
              THEN TokenizeFrom(input, i + 1, Append(tokens, Token("STRING", token)),
                                <<>>, FALSE)
              ELSE TokenizeFrom(input, i + 1, tokens, token, TRUE)
         ELSE IF inString
         THEN TokenizeFrom(input, i + 1, tokens, Append(token, c), TRUE)
         ELSE IF IsSpace(c)
         THEN TokenizeFrom(input, i + 1, Flush(tokens, token), <<>>, FALSE)
         ELSE IF IsPunct(c)
         THEN TokenizeFrom(input, i + 1,
                           Append(Flush(tokens, token), Token("PUNCTUATION", <<c>>)),
                           <<>>, FALSE)
         ELSE TokenizeFrom(input, i + 1, tokens, Append(token, c), FALSE)

\* Database::tokenize
Tokenize(input) == TokenizeFrom(input, 1, <<>>, <<>>, FALSE)

\* INT_MAX, beyond which std::stoi throws std::out_of_range
IntMax == 2147483647

RECURSIVE DigitsValue(_, _)
\* The number the first n digits of str denote, -1 once it exceeds INT_MAX
DigitsValue(str, n) ==
    IF n = 0 THEN 0
    ELSE LET v == DigitsValue(str, n - 1)
             d == (CHOOSE k \in 1..10 : Digits[k] = str[n]) - 1
         IN IF v = -1 \/ v > (IntMax - d) \div 10 THEN -1 ELSE 10 * v + d

\* std::stoi of an all-digit token: the value, or -1 for std::out_of_range
StoI(str) == DigitsValue(str, Len(str))

RECURSIVE Decimal(_)
\* operator<< of a non-negative int: its decimal digits
Decimal(n) == IF n < 10 THEN <<Digits[n + 1]>> ELSE Decimal(n \div 10) \o <<Digits[(n % 10) + 1]>>

-----------------------------------------------------------------------------
(* class Database: the parse methods.  st is the object's state, a record   *)
(* [heap, databases, currentDb, currentDbName]; a method gives the state it *)
(* leaves, the message of the exception it throws (Ok for none), the token  *)
(* position an expect() failed at, and the lines it prints for a SELECT.    *)

NullPtr == 0
NoTables == [x \in {} |-> NewTable(<<>>)]
NoNames == [x \in {} |-> 0]

\* Database::Database
NewDatabase ==
    [heap |-> NoTables, databases |-> NoNames, currentDb |-> NullPtr, currentDbName |-> <<>>]

Done(st) == [st |-> st, err |-> Ok, pos |-> -1, printed |-> {}]
Printed(st, lines) == [st |-> st, err |-> Ok, pos |-> -1, printed |-> lines]
Throw(st, msg) == [st |-> st, err |-> msg, pos |-> -1, printed |-> {}]
ThrowAt(st, msg, i) == [st |-> st, err |-> msg, pos |-> i, printed |-> {}]

\* make_unique<Table>: an address no live Table has
Alloc(h) == CHOOSE a \in 1..(Cardinality(DOMAIN h) + 1) : a \notin DOMAIN h

\* What an expect() call asks of a token: its type, and its value unless any
Lit(type, value) == [type |-> type, value |-> value, any |-> FALSE]
AnyOf(type) == [type |-> type, value |-> <<>>, any |-> TRUE]

\* Database::expect (both overloads): does the token at 0-based position i fail it
Fails(tokens, i, want) ==
    \/ i >= Len(tokens)
    \/ tokens[i + 1].type # want.type
    \/ ~want.any /\ tokens[i + 1].value # want.value

\* The position of the first expect() of the sequence wants that throws, -1 for none
FirstFailure(tokens, wants) ==
    IF \E k \in 1..Len(wants) : Fails(tokens, k - 1, wants[k])
    THEN (CHOOSE k \in 1..Len(wants) :
              /\ Fails(tokens, k - 1, wants[k])
              /\ \A j \in 1..(k - 1) : ~Fails(tokens, j - 1, wants[j])) - 1
    ELSE -1

nTable == <<"t","a","b","l","e">>
nId == <<"i","d">>
nName == <<"n","a","m","e">>
nStar == <<"*">>
DotDat == <<".", "d", "a", "t">>

\* The Table currentDb points to
Current(st) == st.heap[st.currentDb]
SetCurrent(st, t) == [st EXCEPT !.heap[st.currentDb] = t]

\* Database::parseCreate
ParseCreate(st, fs, tokens) ==
    IF st.currentDb # NullPtr
    THEN Throw(st, "Database already selected. Use DROP DATABASE first.")
    ELSE LET bad == FirstFailure(tokens, <<Lit("KEYWORD", kCREATE), Lit("KEYWORD", kDATABASE)>>) IN
         IF bad # -1 THEN ThrowAt(st, "Expected", bad)
         ELSE IF Fails(tokens, 2, AnyOf("IDENTIFIER")) THEN Throw(st, "Expected database name")
         ELSE LET dbName == tokens[3].value IN
              IF dbName \in DOMAIN st.databases THEN Throw(st, "Database already exists")
              ELSE LET a == Alloc(st.heap)
                       st1 == [st EXCEPT !.heap = Put(st.heap, a, NewTable(IdName)),
                                         !.databases = Put(st.databases, dbName, a)]
                       l == Load(st1.heap[a], fs, dbName \o DotDat)
                       st2 == [st1 EXCEPT !.heap[a] = l.t]
                   IN IF l.err # Ok THEN Throw(st2, l.err)
                      ELSE LET c == CreateIndex(l.t, 1) IN
                           IF c.err # Ok THEN Throw(st2, c.err)
                           ELSE Done([st2 EXCEPT !.heap[a] = c.t,
                                                 !.currentDb = a,
                                                 !.currentDbName = dbName])

\* Database::parseUse
ParseUse(st, tokens) ==
    LET bad == FirstFailure(tokens, <<Lit("KEYWORD", kUSE)>>) IN
    IF bad # -1 THEN ThrowAt(st, "Expected", bad)
    ELSE IF Fails(tokens, 1, AnyOf("IDENTIFIER")) THEN Throw(st, "Expected database name")
    ELSE LET dbName == tokens[2].value IN
         IF dbName \notin DOMAIN st.databases THEN Throw(st, "Database not found")
         ELSE Done([st EXCEPT !.currentDb = st.databases[dbName], !.currentDbName = dbName])

\* Database::parseShowDatabases: prints one line per registered name
ParseShowDatabases(st, tokens) ==
    LET bad == FirstFailure(tokens, <<Lit("KEYWORD", kSHOW), Lit("KEYWORD", kDATABASES)>>) IN
    IF bad # -1 THEN ThrowAt(st, "Expected", bad)
    ELSE IF Len(tokens) # 2 THEN Throw(st, "Extra tokens")
    ELSE Printed(st, DOMAIN st.databases)

\* parseDropDatabase that leaves the selection as it was
ParseDropDatabase_KeepSelection(st, tokens) ==
    LET bad == FirstFailure(tokens, <<Lit("KEYWORD", kDROP), Lit("KEYWORD", kDATABASE)>>) IN
    IF bad # -1 THEN ThrowAt(st, "Expected", bad)
    ELSE IF Fails(tokens, 2, AnyOf("IDENTIFIER")) THEN Throw(st, "Expected database name")
    ELSE LET dbName == tokens[3].value IN
         IF dbName \notin DOMAIN st.databases THEN Throw(st, "Database not found")
         ELSE Done([st EXCEPT !.heap = Erase(st.heap, st.databases[dbName]),
                              !.databases = Erase(st.databases, dbName)])

\* Database::parseDropDatabase
ParseDropDatabase(st, tokens) ==
    LET bad == FirstFailure(tokens, <<Lit("KEYWORD", kDROP), Lit("KEYWORD", kDATABASE)>>) IN
    IF bad # -1 THEN ThrowAt(st, "Expected", bad)
    ELSE IF Fails(tokens, 2, AnyOf("IDENTIFIER")) THEN Throw(st, "Expected database name")
    ELSE LET dbName == tokens[3].value IN
         IF dbName \notin DOMAIN st.databases THEN Throw(st, "Database not found")
         ELSE LET st1 == [st EXCEPT !.heap = Erase(st.heap, st.databases[dbName]),
                                    !.databases = Erase(st.databases, dbName)]
              IN IF st.currentDbName = dbName
                 THEN Done([st1 EXCEPT !.currentDb = NullPtr, !.currentDbName = <<>>])
                 ELSE Done(st1)

\* The line operator<< prints for a row: its values joined by ", "
RowText(row) ==
    LET Field(k) == IF row[k].t = "INT" THEN Decimal(row[k].i) ELSE row[k].s
        Rest[k \in 1..(Len(row) + 1)] ==
            IF k > Len(row) THEN <<>>
            ELSE (IF k > 1 THEN <<",", " ">> ELSE <<>>) \o Field(k) \o Rest[k + 1]
    IN Rest[1]

NoData == <<"N","o"," ","d","a","t","a"," ","f","o","u","n","d",".">>

\* parseInsert: what the loop over the schema expects at token positions 5, 6, ...
InsertWants(schema) ==
    [k \in 1..(2 * Len(schema) - 1) |->
        IF k % 2 = 0 THEN Lit("PUNCTUATION", <<",">>)
        ELSE IF schema[(k + 1) \div 2].type = "INT" THEN AnyOf("INT") ELSE AnyOf("STRING")]

\* Database::parseInsert
ParseInsert(st, tokens) ==
    IF st.currentDb = NullPtr THEN Throw(st, "No database selected")
    ELSE LET schema == Current(st).schema
             wants == <<Lit("KEYWORD", kINSERT), Lit("KEYWORD", kINTO),
                        Lit("IDENTIFIER", nTable), Lit("KEYWORD", kVALUES),
                        Lit("PUNCTUATION", <<"(">>)>>
                      \o InsertWants(schema) \o <<Lit("PUNCTUATION", <<")">>)>>
             bad == FirstFailure(tokens, wants)
             \* the 0-based token position of column j (1-based)
             At(j) == 5 + 2 * (j - 1)
             overflow == \E j \in 1..Len(schema) :
                             /\ schema[j].type = "INT"
                             /\ bad = -1 \/ At(j) < bad
                             /\ StoI(tokens[At(j) + 1].value) = -1
             row == [j \in 1..Len(schema) |->
                        IF schema[j].type = "INT" THEN IntV(StoI(tokens[At(j) + 1].value))
                        ELSE StrV(tokens[At(j) + 1].value)]
         IN IF overflow THEN Throw(st, "stoi")
            ELSE IF bad # -1 THEN ThrowAt(st, "Expected", bad)
            ELSE IF Len(tokens) # Len(wants) THEN Throw(st, "Extra tokens")
            ELSE LET r == Insert(Current(st), row) IN
                 IF r.err # Ok THEN Throw(st, r.err) ELSE Done(SetCurrent(st, r.t))

\* parseSelect that checks the grammar before it checks the selection
ParseSelect_GrammarFirst(st, tokens) ==
    LET wants == <<Lit("KEYWORD", kSELECT), Lit("IDENTIFIER", nStar),
                   Lit("KEYWORD", kFROM), Lit("IDENTIFIER", nTable),
                   Lit("KEYWORD", kWHERE), Lit("IDENTIFIER", nId),
                   Lit("PUNCTUATION", <<"=">>), AnyOf("INT")>>
        bad == FirstFailure(tokens, wants)
    IN IF bad # -1 THEN ThrowAt(st, "Expected", bad)
       ELSE IF Len(tokens) # Len(wants) THEN Throw(st, "Extra tokens")
       ELSE IF st.currentDb = NullPtr THEN Throw(st, "No database selected")
       ELSE LET id == StoI(tokens[8].value) IN
            IF id = -1 THEN Throw(st, "stoi")
            ELSE LET g == Get(Current(st), id) IN
                 IF g.err # Ok THEN Throw(st, g.err)
                 ELSE Printed(st, {RowText(g.row)})

\* Database::parseSelect
ParseSelect(st, tokens) ==
    IF st.currentDb = NullPtr THEN Throw(st, "No database selected")
    ELSE LET wants == <<Lit("KEYWORD", kSELECT), Lit("IDENTIFIER", nStar),
                        Lit("KEYWORD", kFROM), Lit("IDENTIFIER", nTable),
                        Lit("KEYWORD", kWHERE), Lit("IDENTIFIER", nId),
                        Lit("PUNCTUATION", <<"=">>), AnyOf("INT")>>
             bad == FirstFailure(tokens, wants)
         IN IF bad # -1 THEN ThrowAt(st, "Expected", bad)
            ELSE IF Len(tokens) # Len(wants) THEN Throw(st, "Extra tokens")
            ELSE LET id == StoI(tokens[8].value) IN
                 IF id = -1 THEN Throw(st, "stoi")
                 ELSE LET g == Get(Current(st), id) IN
                      IF g.err # Ok THEN Throw(st, g.err)
                      ELSE Printed(st, {RowText(g.row)})

\* Database::parseSelectAll
ParseSelectAll(st, tokens) ==
    IF st.currentDb = NullPtr THEN Throw(st, "No database selected")
    ELSE LET wants == <<Lit("KEYWORD", kSELECT), Lit("IDENTIFIER", nStar),
                        Lit("KEYWORD", kFROM), Lit("IDENTIFIER", nTable)>>
             bad == FirstFailure(tokens, wants)
         IN IF bad # -1 THEN ThrowAt(st, "Expected", bad)
            ELSE IF Len(tokens) # Len(wants) THEN Throw(st, "Extra tokens")
            ELSE LET rows == GetAllRows(Current(st)) IN
                 IF rows = {} THEN Printed(st, {NoData})
                 ELSE Printed(st, {RowText(row) : row \in rows})

\* parseUpdate that inserts the row when the id is absent
ParseUpdate_Upsert(st, tokens) ==
    IF st.currentDb = NullPtr THEN Throw(st, "No database selected")
    ELSE LET wants == <<Lit("KEYWORD", kUPDATE), Lit("IDENTIFIER", nTable),
                        Lit("KEYWORD", kSET), Lit("IDENTIFIER", nName),
                        Lit("PUNCTUATION", <<"=">>), AnyOf("STRING"),
                        Lit("KEYWORD", kWHERE), Lit("IDENTIFIER", nId),
                        Lit("PUNCTUATION", <<"=">>), AnyOf("INT")>>
             bad == FirstFailure(tokens, wants)
         IN IF bad # -1 THEN ThrowAt(st, "Expected", bad)
            ELSE IF Len(tokens) # Len(wants) THEN Throw(st, "Extra tokens")
            ELSE LET id == StoI(tokens[10].value) IN
                 IF id = -1 THEN Throw(st, "stoi")
                 ELSE LET g == Get(Current(st), id)
                          row == <<IntV(id), StrV(tokens[6].value)>>
                          r == IF g.err # Ok THEN Insert(Current(st), row)
                               ELSE Update(Current(st), id, row)
                      IN IF r.err # Ok THEN Throw(st, r.err)
                         ELSE Done(SetCurrent(st, r.t))

\* Database::parseUpdate
ParseUpdate(st, tokens) ==
    IF st.currentDb = NullPtr THEN Throw(st, "No database selected")
    ELSE LET wants == <<Lit("KEYWORD", kUPDATE), Lit("IDENTIFIER", nTable),
                        Lit("KEYWORD", kSET), Lit("IDENTIFIER", nName),
                        Lit("PUNCTUATION", <<"=">>), AnyOf("STRING"),
                        Lit("KEYWORD", kWHERE), Lit("IDENTIFIER", nId),
                        Lit("PUNCTUATION", <<"=">>), AnyOf("INT")>>
             bad == FirstFailure(tokens, wants)
         IN IF bad # -1 THEN ThrowAt(st, "Expected", bad)
            ELSE IF Len(tokens) # Len(wants) THEN Throw(st, "Extra tokens")
            ELSE LET id == StoI(tokens[10].value) IN
                 IF id = -1 THEN Throw(st, "stoi")
                 ELSE LET g == Get(Current(st), id) IN
                      IF g.err # Ok THEN Throw(st, g.err)
                      ELSE LET row == [g.row EXCEPT ![2] = StrV(tokens[6].value)]
                               r == Update(Current(st), id, row)
                           IN IF r.err # Ok THEN Throw(st, r.err)
                              ELSE Done(SetCurrent(st, r.t))

\* parseDelete that is silent about an absent id, as Table::remove is
ParseDelete_Silent(st, tokens) ==
    IF st.currentDb = NullPtr THEN Throw(st, "No database selected")
    ELSE LET wants == <<Lit("KEYWORD", kDELETE), Lit("KEYWORD", kFROM),
                        Lit("IDENTIFIER", nTable), Lit("KEYWORD", kWHERE),
                        Lit("IDENTIFIER", nId), Lit("PUNCTUATION", <<"=">>), AnyOf("INT")>>
             bad == FirstFailure(tokens, wants)
         IN IF bad # -1 THEN ThrowAt(st, "Expected", bad)
            ELSE IF Len(tokens) # Len(wants) THEN Throw(st, "Extra tokens")
            ELSE LET id == StoI(tokens[7].value) IN
                 IF id = -1 THEN Throw(st, "stoi")
                 ELSE Done(SetCurrent(st, Remove(Current(st), id)))

\* Database::parseDelete
ParseDelete(st, tokens) ==
    IF st.currentDb = NullPtr THEN Throw(st, "No database selected")
    ELSE LET wants == <<Lit("KEYWORD", kDELETE), Lit("KEYWORD", kFROM),
                        Lit("IDENTIFIER", nTable), Lit("KEYWORD", kWHERE),
                        Lit("IDENTIFIER", nId), Lit("PUNCTUATION", <<"=">>), AnyOf("INT")>>
             bad == FirstFailure(tokens, wants)
         IN IF bad # -1 THEN ThrowAt(st, "Expected", bad)
            ELSE IF Len(tokens) # Len(wants) THEN Throw(st, "Extra tokens")
            ELSE LET id == StoI(tokens[7].value) IN
                 IF id = -1 THEN Throw(st, "stoi")
                 ELSE IF Get(Current(st), id).err # Ok THEN Throw(st, "ID not found")
                 ELSE Done(SetCurrent(st, Remove(Current(st), id)))

\* execute that takes every SELECT of four tokens or more for select-all
Handler_SelectAllFromFour(tokens) ==
    IF tokens = <<>> THEN "none"
    ELSE IF tokens[1].value = kCREATE THEN "parseCreate"
    ELSE IF tokens[1].value = kUSE THEN "parseUse"
    ELSE IF tokens[1].value = kSHOW THEN "parseShowDatabases"
    ELSE IF tokens[1].value = kDROP THEN "parseDropDatabase"
    ELSE IF tokens[1].value = kINSERT THEN "parseInsert"
    ELSE IF tokens[1].value = kSELECT /\ Len(tokens) >= 4 THEN "parseSelectAll"
    ELSE IF tokens[1].value = kSELECT THEN "parseSelect"
    ELSE IF tokens[1].value = kUPDATE THEN "parseUpdate"
    ELSE IF tokens[1].value = kDELETE THEN "parseDelete"
    ELSE "unknown"

\* Database::execute: which parse method a token sequence is dispatched to
Handler(tokens) ==
    IF tokens = <<>> THEN "none"
    ELSE IF tokens[1].value = kCREATE THEN "parseCreate"
    ELSE IF tokens[1].value = kUSE THEN "parseUse"
    ELSE IF tokens[1].value = kSHOW THEN "parseShowDatabases"
    ELSE IF tokens[1].value = kDROP THEN "parseDropDatabase"
    ELSE IF tokens[1].value = kINSERT THEN "parseInsert"
    ELSE IF tokens[1].value = kSELECT /\ Len(tokens) = 4 THEN "parseSelectAll"
    ELSE IF tokens[1].value = kSELECT THEN "parseSelect"
    ELSE IF tokens[1].value = kUPDATE THEN "parseUpdate"
    ELSE IF tokens[1].value = kDELETE THEN "parseDelete"
    ELSE "unknown"

\* Database::execute on the tokens of a command line
ExecuteTokens(st, fs, tokens) ==
    LET h == Handler(tokens) IN
    IF h = "none" THEN Done(st)
    ELSE IF h = "parseCreate" THEN ParseCreate(st, fs, tokens)
    ELSE IF h = "parseUse" THEN ParseUse(st, tokens)
    ELSE IF h = "parseShowDatabases" THEN ParseShowDatabases(st, tokens)
    ELSE IF h = "parseDropDatabase" THEN ParseDropDatabase(st, tokens)
    ELSE IF h = "parseInsert" THEN ParseInsert(st, tokens)
    ELSE IF h = "parseSelectAll" THEN ParseSelectAll(st, tokens)
    ELSE IF h = "parseSelect" THEN ParseSelect(st, tokens)
    ELSE IF h = "parseUpdate" THEN ParseUpdate(st, tokens)
    ELSE IF h = "parseDelete" THEN ParseDelete(st, tokens)
    ELSE Throw(st, "Unknown command")

\* Database::execute
Execute(st, fs, command) == ExecuteTokens(st, fs, Tokenize(command))

\* a destructor that saves the selected database only
SaveAll_CurrentOnly(st, fs, orders) ==
    IF st.currentDb = NullPtr THEN fs
    ELSE Put(fs, st.currentDbName \o DotDat, Save(st.heap[st.currentDb], orders[st.currentDbName]))

\* Database::~Database: the files after every registered Table is saved, the Table
\* of name n iterating its rows in the order orders[n]
SaveAll(st, fs, orders) ==
    LET written == {n \o DotDat : n \in DOMAIN st.databases} IN
    [f \in (DOMAIN fs) \cup written |->
        IF f \in written
        THEN LET n == CHOOSE m \in DOMAIN st.databases : m \o DotDat = f
             IN Save(st.heap[st.databases[n]], orders[n])
        ELSE fs[f]]

-----------------------------------------------------------------------------
(* The command lines typed at the prompt *)

nShop == <<"s","h","o","p">>
nOld == <<"o","l","d">>
DbNames == {nShop, nOld}
IdTexts == {<<"1">>, <<"2">>}
\* the ids those texts denote
DbIds == {StoI(i) : i \in IdTexts}
tPen == <<"p","e","n">>
tRedPen == <<"r","e","d"," ","p","e","n">>
DbTexts == {tPen, tRedPen}

RECURSIVE Join(_)
\* words separated by one space
Join(words) ==
    IF Len(words) = 1 THEN words[1] ELSE words[1] \o <<" ">> \o Join(Tail(words))

Quoted(text) == <<"'">> \o text \o <<"'">>

CreateLine(n) == Join(<<kCREATE, kDATABASE, n>>)
UseLine(n) == Join(<<kUSE, n>>)
ShowLine == Join(<<kSHOW, kDATABASES>>)
DropLine(n) == Join(<<kDROP, kDATABASE, n>>)
InsertLine(i, x) ==
    Join(<<kINSERT, kINTO, nTable, kVALUES>>) \o <<" ", "(">> \o i \o <<",", " ">>
    \o Quoted(x) \o <<")">>
SelectLine(i) == Join(<<kSELECT, nStar, kFROM, nTable, kWHERE, nId, <<"=">>, i>>)
SelectAllLine == Join(<<kSELECT, nStar, kFROM, nTable>>)
UpdateLine(x, i) ==
    Join(<<kUPDATE, nTable, kSET, nName, <<"=">>, Quoted(x), kWHERE, nId, <<"=">>, i>>)
DeleteLine(i) == Join(<<kDELETE, kFROM, nTable, kWHERE, nId, <<"=">>, i>>)

\* The well-formed commands
GoodLines ==
    {CreateLine(n) : n \in DbNames} \cup {UseLine(n) : n \in DbNames}
    \cup {DropLine(n) : n \in DbNames} \cup {ShowLine, SelectAllLine}
    \cup {InsertLine(i, x) : i \in IdTexts, x \in DbTexts}
    \cup {SelectLine(i) : i \in IdTexts}
    \cup {UpdateLine(x, i) : x \in DbTexts, i \in IdTexts}
    \cup {DeleteLine(i) : i \in IdTexts}

\* One command of each grammar followed by one more token
ExtraLines ==
    {l \o <<" ", "x">> :
        l \in {CreateLine(nShop), UseLine(nShop), ShowLine, DropLine(nShop),
               InsertLine(<<"1">>, tPen), SelectLine(<<"1">>), SelectAllLine,
               UpdateLine(tPen, <<"1">>), DeleteLine(<<"1">>)}}

\* Other lines: empty, blank, an unknown command, a 4-token SELECT that is not
\* select-all, an id with a leading zero, an id beyond INT_MAX, a missing name
OddLines ==
    {<<>>, <<" ">>, <<"H","E","L","P">>, Join(<<kSELECT, nStar, kFROM, nShop>>),
     SelectLine(<<"0", "1">>), SelectLine(<<"9","9","9","9","9","9","9","9","9","9","9">>), Join(<<kCREATE, kDATABASE>>)}

Lines == GoodLines \cup ExtraLines \cup OddLines

\* Every line with its tokens and the parse method execute dispatches it to
Commands ==
    {[line |-> l, tokens |-> Tokenize(l), handler |-> Handler(Tokenize(l))] : l \in Lines}

\* shop.dat as an earlier run left it: one row, 2, pen
ShopFile ==
    Save([NewTable(IdName) EXCEPT !.data = Put(EmptyMap, 2, <<IntV(2), StrV(tPen)>>)], <<2>>)
\* old.dat, written for another schema
OldFile == SeedFile(IdTitle)

-----------------------------------------------------------------------------
(* Spec: one run of the program, from main() constructing the Database to   *)
(* its destruction when run() returns.                                      *)

St == [heap |-> heap, databases |-> databases,
       currentDb |-> currentDb, currentDbName |-> currentDbName]

\* Database::run: what executing one line leaves behind, its exception caught
\* and reported
Report(h, r) ==
    /\ heap' = r.st.heap
    /\ databases' = r.st.databases
    /\ currentDb' = r.st.currentDb
    /\ currentDbName' = r.st.currentDbName
    /\ out' = [cmd |-> h, err |-> r.err]
    /\ UNCHANGED <<disk, phase, tableVars>>

\* execute on a line without tokens
EmptyLine ==
    /\ phase = "running"
    /\ \E c \in Commands :
          /\ c.handler = "none"
          /\ \E r \in {Done(St)} : Report("none", r)

\* a line dispatched to parseCreate
Create ==
    /\ phase = "running"
    /\ \E c \in Commands :
          /\ c.handler = "parseCreate"
          /\ \E r \in {ParseCreate(St, disk, c.tokens)} : Report("parseCreate", r)

\* a line dispatched to parseUse
Use ==
    /\ phase = "running"
    /\ \E c \in Commands :
          /\ c.handler = "parseUse"
          /\ \E r \in {ParseUse(St, c.tokens)} : Report("parseUse", r)

\* a line dispatched to parseShowDatabases
ShowDatabases ==
    /\ phase = "running"
    /\ \E c \in Commands :
          /\ c.handler = "parseShowDatabases"
          /\ \E r \in {ParseShowDatabases(St, c.tokens)} : Report("parseShowDatabases", r)

\* a line dispatched to parseDropDatabase
DropDatabase ==
    /\ phase = "running"
    /\ \E c \in Commands :
          /\ c.handler = "parseDropDatabase"
          /\ \E r \in {ParseDropDatabase(St, c.tokens)} : Report("parseDropDatabase", r)

\* a line dispatched to parseInsert
InsertRow ==
    /\ phase = "running"
    /\ \E c \in Commands :
          /\ c.handler = "parseInsert"
          /\ \E r \in {ParseInsert(St, c.tokens)} : Report("parseInsert", r)

\* a line dispatched to parseSelect
SelectRow ==
    /\ phase = "running"
    /\ \E c \in Commands :
          /\ c.handler = "parseSelect"
          /\ \E r \in {ParseSelect(St, c.tokens)} : Report("parseSelect", r)

\* a line dispatched to parseSelectAll
SelectAll ==
    /\ phase = "running"
    /\ \E c \in Commands :
          /\ c.handler = "parseSelectAll"
          /\ \E r \in {ParseSelectAll(St, c.tokens)} : Report("parseSelectAll", r)

\* a line dispatched to parseUpdate
UpdateRow ==
    /\ phase = "running"
    /\ \E c \in Commands :
          /\ c.handler = "parseUpdate"
          /\ \E r \in {ParseUpdate(St, c.tokens)} : Report("parseUpdate", r)

\* a line dispatched to parseDelete
DeleteRow ==
    /\ phase = "running"
    /\ \E c \in Commands :
          /\ c.handler = "parseDelete"
          /\ \E r \in {ParseDelete(St, c.tokens)} : Report("parseDelete", r)

\* a line whose first token names no command
UnknownCommand ==
    /\ phase = "running"
    /\ \E c \in Commands :
          /\ c.handler = "unknown"
          /\ \E r \in {Throw(St, "Unknown command")} : Report("unknown", r)

\* EXIT or end of input: run() returns and main() destroys the Database
Exit ==
    /\ phase = "running"
    /\ \E orders \in [DOMAIN databases -> UNION {Orders(S) : S \in SUBSET DbIds}] :
          /\ \A n \in DOMAIN databases :
                 orders[n] \in Orders(DOMAIN heap[databases[n]].data)
          /\ disk' = SaveAll(St, disk, orders)
    /\ phase' = "exited"
    /\ out' = [cmd |-> "EXIT", err |-> Ok]
    /\ UNCHANGED <<heap, databases, currentDb, currentDbName, tableVars>>

Init ==
    /\ heap = NewDatabase.heap
    /\ databases = NewDatabase.databases
    /\ currentDb = NewDatabase.currentDb
    /\ currentDbName = NewDatabase.currentDbName
    /\ out = [cmd |-> "", err |-> Ok]
    /\ phase = "running"
    /\ disk \in {NoFiles, Put(Put(NoFiles, nShop \o DotDat, ShopFile), nOld \o DotDat, OldFile)}
    /\ tbl = NewTable(IdName)
    /\ res = Result("", Ok)

Next ==
    \/ EmptyLine
    \/ Create
    \/ Use
    \/ ShowDatabases
    \/ DropDatabase
    \/ InsertRow
    \/ SelectRow
    \/ SelectAll
    \/ UpdateRow
    \/ DeleteRow
    \/ UnknownCommand
    \/ Exit

Spec == Init /\ [][Next]_vars

-----------------------------------------------------------------------------
(* Properties of the interpreter *)

\* The Table registered under name n
TableOf(st, n) == st.heap[st.databases[n]]

Selected == phase = "running" /\ currentDb # NullPtr

C7_InsertThenGet ==
    /\ \A a \in DOMAIN heap, row \in Rows :
           (ValidateRow(heap[a], row) = Ok /\ row[1].i \notin DOMAIN heap[a].data)
               => LET r == Insert(heap[a], row) IN
                  /\ r.err = Ok
                  /\ Get(r.t, row[1].i) = [row |-> row, err |-> Ok]
    /\ Selected =>
           \A n \in DbIds \ DOMAIN Current(St).data, x \in DbTexts :
               LET r == Execute(St, disk, InsertLine(Decimal(n), x))
                   q == Execute(r.st, disk, SelectLine(Decimal(n)))
               IN /\ r.err = Ok
                  /\ q.err = Ok
                  /\ q.printed = {Decimal(n) \o <<",", " ">> \o x}

\* C7 witness: a SELECT by id has just printed a row of a database that started
\* without a file and now holds two rows
C7_Witness ==
    /\ out = [cmd |-> "parseSelect", err |-> Ok]
    /\ disk = NoFiles
    /\ DOMAIN Current(St).data = DbIds

\* C9: when the process has shut down, each database registered at that moment has
\* its rows in <name>.dat as save writes them, and CREATE DATABASE <name> in a new
\* process gives a table holding exactly those rows.
C9_Durable ==
    phase = "exited" =>
        \A n \in DOMAIN databases :
            LET r == Execute(NewDatabase, disk, CreateLine(n)) IN
            /\ n \o DotDat \in DOMAIN disk
            /\ \E order \in Orders(DOMAIN TableOf(St, n).data) :
                   disk[n \o DotDat] = Save(TableOf(St, n), order)
            /\ r.err = Ok
            /\ n \in DOMAIN r.st.databases
            /\ TableOf(r.st, n).data = TableOf(St, n).data

\* C9 witness: the process has shut down with two databases registered, one of
\* them holding two rows
C9_Witness ==
    /\ phase = "exited"
    /\ DOMAIN databases = DbNames
    /\ \E n \in DbNames : DOMAIN TableOf(St, n).data = DbIds

\* The rows a file of the program's schema holds, none when there is no file
FileRows(fs, n) == Load(NewTable(IdName), fs, n \o DotDat).t.data

\* C10: DROP DATABASE n on a registered name unregisters n; a following USE n fails
\* with "Database not found", and a following CREATE DATABASE n gives a table
\* holding exactly the rows n.dat held before the DROP.
C10_DropThenCreate ==
    phase = "running" =>
        \A n \in DOMAIN databases :
            LET d == Execute(St, disk, DropLine(n))
                u == Execute(d.st, disk, UseLine(n))
                c == Execute(d.st, disk, CreateLine(n))
            IN /\ d.err = Ok
               /\ n \notin DOMAIN d.st.databases
               /\ u.err = "Database not found"
               /\ c.err = Ok
               /\ n \in DOMAIN c.st.databases
               /\ TableOf(c.st, n).data = FileRows(disk, n)

\* C15: each stored row is keyed by its own primary key and matches the schema: the
\* row stored under k has as many values as the schema has columns, each value has
\* its column's type, and its first value is k.
C15_RowsMatchSchema ==
    \A k \in DOMAIN tbl.data :
        LET row == tbl.data[k] IN
        /\ Len(row) = Len(tbl.schema)
        /\ \A j \in 1..Len(row) : row[j].t = tbl.schema[j].type
        /\ row[1].i = k

\* C15 witness: the table has just loaded a file that save wrote after an update,
\* and holds the highest id only
C15_Witness ==
    /\ res = Result("load", Ok)
    /\ DOMAIN tbl.data = {MaxId}
    /\ F \in DOMAIN disk
    /\ disk[F] = Save(tbl, <<MaxId>>)
    /\ disk[F] \notin {SeedFile(s) : s \in FileSchemas}

-----------------------------------------------------------------------------
(* Properties of the registry *)

\* The CREATE DATABASE, USE and DROP DATABASE lines
RegistryLines ==
    {CreateLine(n) : n \in DbNames} \cup {UseLine(n) : n \in DbNames}
    \cup {DropLine(n) : n \in DbNames}

RECURSIVE RegistryReach(_, _)
\* Database::run: every Database state that registry lines lead to from the states
\* S, the files being fs
RegistryReach(S, fs) ==
    LET T == S \cup {Execute(st, fs, l).st : st \in S, l \in RegistryLines} IN
    IF T = S THEN S ELSE RegistryReach(T, fs)

\* File systems on which every load succeeds: no file, or files of the program's schema
LoadableDisks == {NoFiles, Put(NoFiles, nShop \o DotDat, ShopFile)}

\* USE n moves the selection of st from one registered database to another
Switches(st, fs, n) ==
    LET u == Execute(st, fs, UseLine(n)) IN
    /\ st.currentDb # NullPtr
    /\ u.err = Ok
    /\ u.st.currentDb # st.currentDb

\* C11: starting from the empty registry, with every load succeeding, some sequence
\* of CREATE DATABASE / USE / DROP DATABASE lines reaches a state in which two
\* databases are registered at once and a USE moves the selection from one to the
\* other.
C11_SwitchReachable ==
    (phase = "running" /\ St = NewDatabase /\ disk \in LoadableDisks) =>
        \E st \in RegistryReach({St}, disk) :
            /\ Cardinality(DOMAIN st.databases) >= 2
            /\ \E n \in DbNames : Switches(st, disk, n)

\* C12: a valid command followed by one more token is rejected with an error and
\* changes no state, for every command.
C12_ExtraTokensRejected ==
    phase = "running" =>
        \A l \in GoodLines :
            LET r == Execute(St, disk, l \o <<" ", "x">>) IN
            /\ r.err # Ok
            /\ r.st = St

\* C13: a command line whose execution ends in an error leaves the registered
\* databases, the selection and every table as they were before the line.
C13_FailureChangesNothing ==
    phase = "running" =>
        \A c \in Commands :
            LET r == ExecuteTokens(St, disk, c.tokens) IN
            r.err # Ok => r.st = St

\* C14: either no database is selected (null currentDb and empty currentDbName), or
\* currentDbName is a registered name and currentDb is the live Table registered
\* under it.
C14_SelectionConsistent ==
    \/ currentDb = NullPtr /\ currentDbName = <<>>
    \/ /\ currentDbName \in DOMAIN databases
       /\ currentDb = databases[currentDbName]
       /\ currentDb \in DOMAIN heap

\* C14 witness: a DROP DATABASE has just removed a database other than the selected
\* one, which stays selected
C14_Witness ==
    /\ out = [cmd |-> "parseDropDatabase", err |-> Ok]
    /\ currentDb # NullPtr
    /\ Cardinality(DOMAIN databases) = 1

-----------------------------------------------------------------------------
(* Properties of the table commands *)

\* Every Table of st other than the selected one is as in St, and so are the
\* registry and the selection
OthersUnchanged(st) ==
    /\ st.databases = databases
    /\ st.currentDb = currentDb
    /\ st.currentDbName = currentDbName
    /\ DOMAIN st.heap = DOMAIN heap
    /\ \A a \in DOMAIN heap \ {currentDb} : st.heap[a] = heap[a]

\* Every UPDATE line with its id, its text, its tokens and the tokens of the
\* SELECT by the same id
UpdateCommands ==
    {[i |-> i, v |-> v, id |-> StoI(i),
      update |-> Tokenize(UpdateLine(v, i)),
      select |-> Tokenize(SelectLine(i))] : i \in IdTexts, v \in DbTexts}

\* C16: UPDATE table SET name = v WHERE id = i on a present id changes only the name
\* of row i: its id stays i, every other row and every other database are
\* unchanged, and SELECT by id i then prints i, v; on an absent id it fails with
\* "ID not found" and changes nothing.
C16_UpdateChangesName ==
    Selected =>
        \A u \in UpdateCommands :
            LET i == u.i
                v == u.v
                id == u.id
                r == ExecuteTokens(St, disk, u.update)
                q == ExecuteTokens(r.st, disk, u.select)
            IN IF id \in DOMAIN Current(St).data
               THEN /\ r.err = Ok
                    /\ OthersUnchanged(r.st)
                    /\ Current(r.st).schema = Current(St).schema
                    /\ Current(r.st).data =
                           [Current(St).data EXCEPT ![id] = <<IntV(id), StrV(v)>>]
                    /\ q.err = Ok
                    /\ q.printed = {i \o <<",", " ">> \o v}
               ELSE /\ r.err = "ID not found"
                    /\ r.st = St

\* C16 witness: an UPDATE has just succeeded on a database that holds two rows while
\* a second database is registered
C16_Witness ==
    /\ out = [cmd |-> "parseUpdate", err |-> Ok]
    /\ DOMAIN databases = DbNames
    /\ DOMAIN Current(St).data = DbIds

\* C17: DELETE FROM table WHERE id = i on a present id removes exactly row i, so that
\* SELECT by id i then fails with "ID not found" and every other row is unchanged;
\* on an absent id the DELETE itself fails with "ID not found" and changes nothing.
C17_DeleteRemovesRow ==
    Selected =>
        \A i \in IdTexts :
            LET r == Execute(St, disk, DeleteLine(i))
                id == StoI(i)
                q == Execute(r.st, disk, SelectLine(i))
            IN IF id \in DOMAIN Current(St).data
               THEN /\ r.err = Ok
                    /\ OthersUnchanged(r.st)
                    /\ DOMAIN Current(r.st).data = DOMAIN Current(St).data \ {id}
                    /\ \A k \in DOMAIN Current(r.st).data :
                           Current(r.st).data[k] = Current(St).data[k]
                    /\ q.err = "ID not found"
               ELSE /\ r.err = "ID not found"
                    /\ r.st = St

\* C17 witness: a DELETE has just removed one of two rows, and a DELETE of the same
\* id would now be refused
C17_Witness ==
    /\ out = [cmd |-> "parseDelete", err |-> Ok]
    /\ currentDb # NullPtr
    /\ Cardinality(DOMAIN Current(St).data) = 1

\* The lines execute dispatches to a table command
TableCommands ==
    {c \in Commands : c.handler \in {"parseInsert", "parseSelect", "parseSelectAll",
                                     "parseUpdate", "parseDelete"}}

\* The lines that are the first keyword of a table command and nothing else
BareLines == {kINSERT, kSELECT, kUPDATE, kDELETE}

\* C18: while no database is selected every INSERT, SELECT, UPDATE and DELETE line,
\* whatever its remaining tokens, fails with "No database selected" and changes no
\* state; and DROP of the selected database leaves no database selected.
C18_NoDatabaseSelected ==
    phase = "running" =>
        /\ currentDb = NullPtr =>
               /\ \A c \in TableCommands :
                      ExecuteTokens(St, disk, c.tokens) = Throw(St, "No database selected")
               /\ \A l \in BareLines :
                      Execute(St, disk, l) = Throw(St, "No database selected")
        /\ currentDb # NullPtr =>
               LET d == Execute(St, disk, DropLine(currentDbName)) IN
               /\ d.err = Ok
               /\ d.st.currentDb = NullPtr
               /\ d.st.currentDbName = <<>>

\* C18 witness: a table command has just been refused for want of a selection after
\* the selected database was dropped: a database is registered, none is selected
C18_Witness ==
    /\ out.err = "No database selected"
    /\ out.cmd \in {"parseInsert", "parseSelect", "parseSelectAll", "parseUpdate", "parseDelete"}
    /\ databases # NoNames
    /\ currentDb = NullPtr

-----------------------------------------------------------------------------
(* Properties of the tokenizer *)

\* What a line may hold in front of a string literal, the last three ending in a
\* character that is neither a space nor punctuation
Prefixes == {<<>>, <<" ">>, <<"(">>, kSET \o <<" ">>, <<"x">>, <<"1">>, kVALUES}
\* What it may hold after the literal
Suffixes == {<<>>, <<")">>, <<" ", "x">>}
\* The texts between the quotes: spaces, punctuation and keywords among them
Literals == DbTexts \cup {kSET \o <<" ", "(", ",", "=">>}

\* The STRING tokens among tokens, in order
StringTokens(tokens) == SelectSeq(tokens, LAMBDA t : t.type = "STRING")

\* C19: a terminated single-quoted literal yields one STRING token whose text is
\* exactly the characters between the quotes; characters standing before the
\* opening quote are not part of that token.
C19_LiteralIsOneToken ==
    phase = "running" =>
        \A pre \in Prefixes, x \in Literals, post \in Suffixes :
            StringTokens(Tokenize(pre \o Quoted(x) \o post)) = <<Token("STRING", x)>>

-----------------------------------------------------------------------------
(* Properties of createIndex *)

\* Column c (numbered from 0) of the schema of t can be indexed
Indexable(t, c) == 0 < c /\ c < Len(t.schema) /\ t.schema[c + 1].type = "STRING"

\* C20: createIndex(c) fails with "Invalid column for indexing", changing nothing,
\* unless 0 < c < len(schema) and column c is STRING; when it succeeds the rows are
\* unchanged and the new index has, for each value of column c among the stored
\* rows, exactly the ids of the rows holding it, and no other bucket, whatever the
\* index held before.
C20_CreateIndexRebuilds ==
    \A c \in 0..3 :
        LET r == CreateIndex(tbl, c) IN
        IF Indexable(tbl, c)
        THEN /\ r.err = Ok
             /\ r.t.data = tbl.data
             /\ r.t.schema = tbl.schema
             /\ r.t.stringIndex.has
             /\ r.t.indexedColumn = c
             /\ \A v \in DOMAIN r.t.stringIndex.map :
                    /\ r.t.stringIndex.map[v] # {}
                    /\ \A id \in r.t.stringIndex.map[v] :
                           id \in DOMAIN tbl.data /\ tbl.data[id][c + 1].s = v
             /\ \A id \in DOMAIN tbl.data :
                    /\ tbl.data[id][c + 1].s \in DOMAIN r.t.stringIndex.map
                    /\ id \in r.t.stringIndex.map[tbl.data[id][c + 1].s]
        ELSE /\ r.err = "Invalid column for indexing"
             /\ r.t = tbl

\* C20 witness: a table of two STRING columns that holds rows and whose index, on
\* the second of them, a remove has left with the id of a row no longer stored
C20_Witness ==
    /\ res = Result("remove", Ok)
    /\ tbl.stringIndex.has
    /\ tbl.indexedColumn = 2
    /\ tbl.data # EmptyMap
    /\ \E v \in DOMAIN tbl.stringIndex.map : ~(tbl.stringIndex.map[v] \subseteq DOMAIN tbl.data)

-----------------------------------------------------------------------------
(* Properties of the dispatch of SELECT *)

\* The words of a SELECT by id, and one word more
SelectWords == <<kSELECT, nStar, kFROM, nTable, kWHERE, nId, <<"=">>, <<"1">>, <<"x">>>>

\* SELECT lines of every token count from 1 to 9, a 4-token SELECT that is not
\* select-all, and a line whose first token is the string literal 'SELECT'
SelectShapes ==
    {Join(SubSeq(SelectWords, 1, k)) : k \in 1..Len(SelectWords)}
    \cup {Join(<<kSELECT, nStar, kFROM, nShop>>),
          Join(<<Quoted(kSELECT), nStar, kFROM, nTable>>)}

\* The tokens of those lines
SelectTokens == {Tokenize(l) : l \in SelectShapes}

\* C21: a line whose first token is SELECT is parsed with the select-all grammar
\* exactly when it has 4 tokens and with the WHERE-id grammar for every other
\* length; its outcome is that of the one grammar, the other is never tried.
C21_SelectDispatch ==
    phase = "running" =>
        \A tokens \in SelectTokens :
            LET r == ExecuteTokens(St, disk, tokens)
            IN /\ tokens[1].value = kSELECT
               /\ Len(tokens) = 4 => r = ParseSelectAll(St, tokens)
               /\ Len(tokens) # 4 => r = ParseSelect(St, tokens)

\* C21 witness: with a database selected, a SELECT of 4 tokens that is not the
\* select-all command has just failed in parseSelectAll
C21_Witness ==
    /\ Selected
    /\ out = [cmd |-> "parseSelectAll", err |-> "Expected"]
    /\ Current(St).data # EmptyMap

====
